---- MODULE Spec2Model ----
(***************************************************************************)
(* Model of the foggytcp CheckPoint1 measurement pipeline:                 *)
(*   - the transfer test driver   (experiment/CP1_client.py)               *)
(*   - the server loop            (experiment/CP1_server.py)               *)
(*   - the log classifier         (results/data_praser.py, results/2csv.py)*)
(*   - the cross-run aggregation  (results/data_praser.py,                 *)
(*                                 plotter/plot_results.py)                *)
(* Spec      : driver and server running concurrently.                     *)
(* SpecParse : the two log parsers applied to bounded log contents.        *)
(* SpecAgg   : parse_all_results and process_experimental_data applied to  *)
(*             bounded sets of run logs.                                   *)
(***************************************************************************)
EXTENDS Integers, Sequences, FiniteSets, TLC

VARIABLES
    \* ---- driver (CP1_client.py) ----
    pc,               \* position of main(): start, begin, loop, call, logged, waiting, cleanup, exited
    sweep,            \* 1 = run_test_suite (TEST 1), 2, 3 = run_variable_test (TEST 2, TEST 3)
    idx,              \* 1-based position in the sweep's value list
    test_id_counter,  \* global test_id_counter
    cur_id,           \* local test_id of run_client_test
    params_csv,       \* rows of results/test_parameters.csv (header left out)
    files,            \* sizes whose test file exists in test_files/
    iface,            \* interface returned by get_interface()
    tcconfig,         \* what has_tcconfig() answers on this machine
    shaper,           \* rule in effect on the interface
    tc_cmds,          \* shaping commands issued to the external tool, in order
    settled,          \* TRUE when a sleep followed the last shaping change
    exit_code,        \* -1 while running, else the process exit code
    last_result,      \* outcome of the last client invocation
    dispatched,       \* test ids in the order the client binary was invoked
    faults,           \* environment faults so far (bounded by MaxFaults)
    \* ---- the transfer in flight between client and server binary ----
    net,
    \* ---- server (CP1_server.py) ----
    srv_pc,           \* start, listen
    index,            \* local index of main()
    results_log,      \* lines of results/results.log
    \* ---- classifier (data_praser.py, 2csv.py) ----
    content,          \* the log file given to the parsers: a sequence of lines
    parse_pc,         \* the parsers that have run on content: exp, csv
    test_data,        \* result of parse_experimental_log
    warnings,         \* ids named by "Warning: Unknown test index"
    csv_rows,         \* rows convert_log_to_csv wrote (header left out)
    \* ---- aggregation (data_praser.py, plot_results.py) ----
    run_files,        \* the five expected run logs: content or missing
    agg_pc,           \* ready, merged
    all_experimental_data,
    averaged,         \* process_experimental_data per test: not run, result or ValueError
    \* ---- correlator (data_praser.py get_test_subset, load_data) ----
    theory,           \* the theoretical series of one test: samples [p, t]
    merged_data,      \* the experimental points of the test, in logged order
    subset,           \* result of get_test_subset
    loaded,           \* result of load_data: sorted x, theory values, runs
    exported,         \* rows of test_N_data.csv written by export_csv
    \* ---- theoretical model (therotical_model/model.py) ----
    th_args,          \* file size, bandwidth and delay handed to theoretical_time
    th_time,          \* the time in ms computed from th_args, or not computed
    gen_pc,           \* position of model.py main: start, the sweep being generated, done
    gen_i,            \* loop index i of the sweep being generated
    th_results,       \* therotical_model/results/results.csv: header, last two rows
    \* ---- durable storage under the two logs ----
    params_synced,    \* every row of test_parameters.csv is on durable storage
    earlier_synced,   \* every row but the last written is on durable storage
    results_synced    \* every line of results.log is on durable storage

driverVars == <<pc, sweep, idx, test_id_counter, cur_id, params_csv, files, iface,
                tcconfig, shaper, tc_cmds, settled, exit_code, last_result, dispatched>>
serverVars == <<srv_pc, index, results_log>>
parseVars == <<content, parse_pc, test_data, warnings, csv_rows>>
aggVars == <<run_files, agg_pc, all_experimental_data, averaged>>
corrVars == <<theory, merged_data, subset, loaded, exported>>
theoryVars == <<th_args, th_time, gen_pc, gen_i, th_results>>
restVars == <<corrVars, theoryVars>>
diskVars == <<params_synced, earlier_synced, results_synced>>
vars == <<driverVars, faults, net, serverVars, parseVars, aggVars, restVars, diskVars>>

----------------------------------------------------------------------------
(* Bounds of the model *)

\* environment faults (failed truncate, failed tcset, listener returning
\* without a completed transfer) allowed in one run
MaxFaults == 1

\* tokens in one line of a log given to the parsers
MaxTokens == 6

\* lines in a log of completion lines given to the parsers
MaxLines == 2

\* largest test id in a log of completion lines
MaxTestId == 17

\* durations (ms) the server binary reports in the parsed logs
Durations == {890, 901}

\* different run logs (one duration per test id each) an experiment run leaves
NumProfiles == 3

----------------------------------------------------------------------------
(* Parameter values: "10Mbps" is [n |-> 10, u |-> "Mbps"] *)

P(n, u) == [n |-> n, u |-> u]

\* the default "" of run_client_test's keyword arguments
NoParam == P(0, "")

\* main(): the list passed to run_test_suite for TEST 1
file_sizes == << P(1, "KB"), P(5, "KB"), P(25, "KB"), P(100, "KB"), P(1, "MB"), P(10, "MB") >>

\* main(): the list passed to run_variable_test for TEST 2
bandwidth_values == << P(1, "Mbps"), P(2, "Mbps"), P(4, "Mbps"), P(5, "Mbps"),
                       P(10, "Mbps"), P(20, "Mbps") >>

\* main(): the list passed to run_variable_test for TEST 3
delay_values == << P(0, "ms"), P(5, "ms"), P(10, "ms"), P(20, "ms"), P(50, "ms"), P(100, "ms") >>

\* main(): the fixed parameters of the three sweeps
fixed_bandwidth == P(10, "Mbps")
fixed_delay == P(10, "ms")
fixed_file_size == P(1, "MB")

\* the list a sweep iterates over
SweepValues(s) == CASE s = 1 -> file_sizes
                    [] s = 2 -> bandwidth_values
                    [] s = 3 -> delay_values

\* the row run_client_test is asked to log for position i of sweep s
test_row(s, i, id) ==
    [test_id   |-> id,
     test_name |-> s,
     bandwidth |-> IF s = 2 THEN bandwidth_values[i] ELSE fixed_bandwidth,
     delay     |-> IF s = 3 THEN delay_values[i] ELSE fixed_delay,
     file_size |-> IF s = 1 THEN file_sizes[i] ELSE fixed_file_size,
     file_path |-> IF s = 1 THEN file_sizes[i] ELSE fixed_file_size]

----------------------------------------------------------------------------
(* Driver helpers *)

\* get_next_test_id: returns the counter and increments it
get_next_test_id_no_increment(counter) == [id |-> counter, counter |-> counter]

get_next_test_id(counter) == [id |-> counter, counter |-> counter + 1]

\* log_test_params: open(csv_path, 'a') and write one row
log_test_params_truncating(csv, row) == <<row>>

log_test_params(csv, row) == Append(csv, row)

\* run_client_test: which outcomes of the client invocation end the process
\* record_results, lines 81-82: f.flush() and os.fsync(f.fileno()) put the
\* file's lines on durable storage before the call returns
os_fsync(synced) == TRUE

\* log_test_params, lines 68-70: leaving the with block closes the file; the
\* row is handed to the operating system, nothing waits for the disk
close_file(synced) == FALSE

sys_exit_at_once(code) == "exited"

\* sys.exit(1) in run_client_test raises SystemExit, which leaves the try
\* block of main() through its finally clause (lines 370-373): where the
\* driver goes on
sys_exit(code) == "cleanup"

transfer_fatal_never(result) == FALSE

transfer_fatal(result) == result # "ok"

time_sleep_skipped(s) == s

\* time.sleep(0.5) / time.sleep(1) after the shaping calls of a sweep (lines
\* 229, 237, 260, 273, 289): s is whether the shaper had settled before;
\* after the sleep it has
time_sleep(s) == TRUE

NoRule == [on |-> FALSE, delay |-> NoParam, rate |-> NoParam]

clear_network_shaping_skipped(st, ifc) == st

\* clear_network_shaping(iface): tcdel is issued whenever tcconfig is there,
\* also for an empty interface name; every exception is swallowed
clear_network_shaping(st, ifc) ==
    IF tcconfig
    THEN [cmds   |-> Append(st.cmds, [cmd |-> "tcdel", iface |-> ifc,
                                     delay |-> NoParam, rate |-> NoParam]),
          shaper |-> IF ifc # "" THEN NoRule ELSE st.shaper]
    ELSE st

\* apply_network_shaping(iface, delay, bandwidth); ok is whether tcset succeeds
apply_network_shaping(st, ifc, delay, bandwidth, ok) ==
    IF ifc = "" THEN st
    ELSE IF tcconfig
         THEN [cmds   |-> Append(st.cmds, [cmd |-> "tcset", iface |-> ifc,
                                          delay |-> delay, rate |-> bandwidth]),
               shaper |-> IF ok THEN [on |-> TRUE, delay |-> delay, rate |-> bandwidth]
                          ELSE st.shaper]
         ELSE st

\* tcset runs (and so can fail) only with an interface and with tcconfig
TcsetRuns == iface # "" /\ tcconfig

NoTransfer == [state |-> "none", id |-> -1]

Results == {"ok", "nonzero", "timeout", "raise"}

----------------------------------------------------------------------------
(* Initial state *)

DriverInit ==
    /\ pc = "start"
    /\ sweep = 1
    /\ idx = 1
    /\ test_id_counter = 0
    /\ cur_id = -1
    /\ params_csv = <<>>
    /\ files = {}
    /\ iface = ""
    /\ tcconfig \in BOOLEAN
    /\ shaper = NoRule
    /\ tc_cmds = <<>>
    /\ settled = FALSE
    /\ exit_code = -1
    /\ last_result = "none"
    /\ dispatched = <<>>
    /\ faults = 0
    /\ net = NoTransfer
    /\ params_synced = TRUE
    /\ earlier_synced = TRUE
    /\ results_synced = TRUE

ServerInit ==
    /\ srv_pc = "start"
    /\ index = 0
    /\ results_log = <<>>

----------------------------------------------------------------------------
(* Log lines and the two parsers.                                          *)
(* A line is a sequence of tokens separated by single spaces:              *)
(*   ts      "[YYYY-MM-DD HH:MM:SS]"         id n   "[n]", n all digits    *)
(*   ct      "Complete transmission in"      num n  "n", n all digits      *)
(*   ms      "ms"                            junk   any other text         *)

Tok(k, n) == [k |-> k, n |-> n]

\* the line record_results writes for a completed transfer
CompletionLine(id, d) == << Tok("ts", 0), Tok("id", id), Tok("ct", 0), Tok("num", d), Tok("ms", 0) >>

\* a line of other status text ("Binary Hash: ...", "Done: Transmitted ...")
NoiseLine == << Tok("junk", 0) >>

\* 2csv.py parse_log_line: re.match of
\*   \[(date time)\] \[(\d+)\] Complete transmission in (\d+) ms
\* on line.strip(): anchored at the start of the line, not at its end
parse_log_line(line) ==
    IF /\ Len(line) >= 5
       /\ line[1].k = "ts"
       /\ line[2].k = "id"
       /\ line[3].k = "ct"
       /\ line[4].k = "num"
       /\ line[5].k = "ms"
    THEN << [test_id |-> line[2].n, transmission_time |-> line[4].n] >>
    ELSE << >>

\* data_praser.py, lines 60-61: re.findall of
\*   \[(\d+)\] Complete transmission in (\d+) ms
\* the non-overlapping matches of one line, left to right, from token i on
\* (the pattern holds no newline, so no match spans two lines)
RECURSIVE FindAll(_, _)
FindAll(line, i) ==
    IF i + 3 > Len(line) THEN << >>
    ELSE IF /\ line[i].k = "id"
            /\ line[i + 1].k = "ct"
            /\ line[i + 2].k = "num"
            /\ line[i + 3].k = "ms"
         THEN << [index |-> line[i].n, time |-> line[i + 2].n] >> \o FindAll(line, i + 4)
         ELSE FindAll(line, i + 1)

\* the matches of a whole file
RECURSIVE Matches(_)
Matches(lines) ==
    IF lines = << >> THEN << >>
    ELSE FindAll(Head(lines), 1) \o Matches(Tail(lines))

EmptyData == [t \in 1..3 |-> << >>]

\* data_praser.py, lines 65-76: one pass of the loop over the matches.
\* time = float(time_str) keeps the value (every duration here is far below
\* 2^53); acc is the test_data built so far and the diagnostics printed
classify_step_lower_bound_excluded(acc, ix, time) ==
    IF 0 <= ix /\ ix <= 5
    THEN [acc EXCEPT !.data[1] = Append(@, time)]
    ELSE IF 6 < ix /\ ix <= 9
    THEN [acc EXCEPT !.data[2] = Append(@, time)]
    ELSE IF 10 <= ix /\ ix <= 15
    THEN [acc EXCEPT !.data[3] = Append(@, time)]
    ELSE [acc EXCEPT !.warn = Append(@, ix)]

classify_step_silent(acc, ix, time) ==
    IF 0 <= ix /\ ix <= 5
    THEN [acc EXCEPT !.data[1] = Append(@, time)]
    ELSE IF 6 <= ix /\ ix <= 9
    THEN [acc EXCEPT !.data[2] = Append(@, time)]
    ELSE IF 10 <= ix /\ ix <= 15
    THEN [acc EXCEPT !.data[3] = Append(@, time)]
    ELSE acc

classify_step(acc, ix, time) ==
    IF 0 <= ix /\ ix <= 5
    THEN [acc EXCEPT !.data[1] = Append(@, time)]
    ELSE IF 6 <= ix /\ ix <= 9
    THEN [acc EXCEPT !.data[2] = Append(@, time)]
    ELSE IF 10 <= ix /\ ix <= 15
    THEN [acc EXCEPT !.data[3] = Append(@, time)]
    ELSE [acc EXCEPT !.warn = Append(@, ix)]

RECURSIVE ClassifyAll(_, _)
ClassifyAll(acc, ms) ==
    IF ms = << >> THEN acc
    ELSE ClassifyAll(classify_step(acc, Head(ms).index, Head(ms).time), Tail(ms))

\* data_praser.py parse_experimental_log on the content of an existing file
parse_experimental_log(lines) ==
    ClassifyAll([data |-> EmptyData, warn |-> << >>], Matches(lines))

\* the test whose list parse_experimental_log puts index ix in; 0 for none
ClassifyGroup(ix) ==
    LET r == classify_step([data |-> EmptyData, warn |-> << >>], ix, 0)
    IN IF r.data[1] # << >> THEN 1
       ELSE IF r.data[2] # << >> THEN 2
       ELSE IF r.data[3] # << >> THEN 3
       ELSE 0

\* 2csv.py convert_log_to_csv: one row per line parse_log_line accepts
RECURSIVE convert_log_to_csv(_)
convert_log_to_csv(lines) ==
    IF lines = << >> THEN << >>
    ELSE parse_log_line(Head(lines)) \o convert_log_to_csv(Tail(lines))

\* the classifier and the aggregation have not run
ParseIdle ==
    /\ content = <<>>
    /\ parse_pc = {}
    /\ test_data = EmptyData
    /\ warnings = << >>
    /\ csv_rows = << >>

AggIdle ==
    /\ run_files = << >>
    /\ agg_pc = "ready"
    /\ all_experimental_data = EmptyData
    /\ averaged = [t \in 1..3 |-> [state |-> "none", rows |-> <<>>]]

\* the correlator and the theoretical model have not run
NoSubset == [state |-> "none", experimental |-> << >>, theoretical |-> << >>,
             theoretical_parameters |-> << >>]

NoExport == [state |-> "none", rows |-> << >>]

NoLoad == [state |-> "none", x |-> << >>, theoretical |-> << >>, experimental_runs |-> << >>]

CorrIdle ==
    /\ theory = << >>
    /\ merged_data = << >>
    /\ subset = NoSubset
    /\ loaded = NoLoad
    /\ exported = NoExport

NoTime == [state |-> "none", n |-> 0, d |-> 1]

NoRow == [test_type |-> "none", parameter_value |-> [n |-> 0, d |-> 1],
          parameter_unit |-> "none", time_ms |-> 0]

\* results.csv is not there
NoResultsCsv == [exists |-> FALSE, header |-> FALSE, rows |-> 0, last |-> NoRow, prev |-> NoRow]

GenIdle ==
    /\ gen_pc = "idle"
    /\ gen_i = 0
    /\ th_results = NoResultsCsv

TheoryIdle ==
    /\ th_args = << >>
    /\ th_time = NoTime
    /\ GenIdle

RestIdle == CorrIdle /\ TheoryIdle

Init == DriverInit /\ ServerInit /\ ParseIdle /\ AggIdle /\ RestIdle

----------------------------------------------------------------------------
(* Driver: main() of CP1_client.py *)

\* main() up to the try block: init_test_params_csv truncates the parameter
\* log, get_interface answers a name or "", shaping is cleared once
MainSetup ==
    /\ pc = "start"
    /\ \E ifc \in {"eth0", ""} :
         LET st == clear_network_shaping([cmds |-> tc_cmds, shaper |-> shaper], ifc)
         IN /\ iface' = ifc
            /\ tc_cmds' = st.cmds
            /\ shaper' = st.shaper
    /\ params_csv' = <<>>
    /\ settled' = FALSE
    /\ pc' = "begin"
    /\ UNCHANGED <<sweep, idx, test_id_counter, cur_id, files, tcconfig, exit_code,
                   last_result, dispatched, faults, net, serverVars, parseVars, aggVars, restVars, diskVars>>

\* main(): check_sudo_access or validate_client_binary_existence calls
\* sys.exit(1), after init_test_params_csv and before any sweep
MainSetupFail ==
    /\ pc = "start"
    /\ params_csv' = <<>>
    /\ pc' = "exited"
    /\ exit_code' = 1
    /\ UNCHANGED <<sweep, idx, test_id_counter, cur_id, files, iface, tcconfig, shaper,
                   tc_cmds, settled, last_result, dispatched, faults, net,
                   serverVars, parseVars, aggVars, restVars, diskVars>>

\* run_test_suite, lines 227-238: clear, sleep, create every test file (each
\* truncate may fail), apply the shaping once, sleep, validate
SuiteBegin ==
    /\ pc = "begin"
    /\ sweep = 1
    /\ \E failed \in SUBSET {file_sizes[i] : i \in 1..Len(file_sizes)}, ok \in BOOLEAN :
         LET nf == Cardinality(failed) + (IF ok THEN 0 ELSE 1)
             st1 == clear_network_shaping([cmds |-> tc_cmds, shaper |-> shaper], iface)
             st2 == apply_network_shaping(st1, iface, fixed_delay, fixed_bandwidth, ok)
         IN /\ faults + nf <= MaxFaults
            /\ (~ok) => TcsetRuns
            /\ faults' = faults + nf
            /\ files' = files \cup ({file_sizes[i] : i \in 1..Len(file_sizes)} \ failed)
            /\ tc_cmds' = st2.cmds
            /\ shaper' = st2.shaper
    /\ settled' = time_sleep(FALSE)
    /\ idx' = 1
    /\ pc' = "loop"
    /\ UNCHANGED <<sweep, test_id_counter, cur_id, params_csv, iface, tcconfig, exit_code,
                   last_result, dispatched, net, serverVars, parseVars, aggVars, restVars, diskVars>>

\* run_test_suite, lines 240-243: a size whose file does not exist is passed
\* over without a transfer
SuiteSkip ==
    /\ pc = "loop"
    /\ sweep = 1
    /\ idx <= Len(file_sizes)
    /\ file_sizes[idx] \notin files
    /\ idx' = idx + 1
    /\ UNCHANGED <<pc, sweep, test_id_counter, cur_id, params_csv, files, iface, tcconfig,
                   shaper, tc_cmds, settled, exit_code, last_result, dispatched, faults,
                   net, serverVars, parseVars, aggVars, restVars, diskVars>>

\* run_variable_test, lines 258-266: clear, sleep, create the fixed-size file
VarBegin ==
    /\ pc = "begin"
    /\ sweep \in {2, 3}
    /\ \E created \in BOOLEAN :
         /\ (~created) => faults < MaxFaults
         /\ faults' = IF created THEN faults ELSE faults + 1
         /\ files' = IF created THEN files \cup {fixed_file_size} ELSE files
    /\ LET st == clear_network_shaping([cmds |-> tc_cmds, shaper |-> shaper], iface)
       IN /\ tc_cmds' = st.cmds
          /\ shaper' = st.shaper
    /\ settled' = time_sleep(FALSE)
    /\ idx' = 1
    /\ pc' = "loop"
    /\ UNCHANGED <<sweep, test_id_counter, cur_id, params_csv, iface, tcconfig, exit_code,
                   last_result, dispatched, net, serverVars, parseVars, aggVars, restVars, diskVars>>

\* run_variable_test, lines 268-289: per value clear, sleep, apply the value
\* with the fixed parameter, validate, sleep
VarShape ==
    /\ pc = "loop"
    /\ sweep \in {2, 3}
    /\ idx <= Len(SweepValues(sweep))
    /\ \E ok \in BOOLEAN :
         LET row == test_row(sweep, idx, 0)
             st1 == clear_network_shaping([cmds |-> tc_cmds, shaper |-> shaper], iface)
             st2 == apply_network_shaping(st1, iface, row.delay, row.bandwidth, ok)
         IN /\ (~ok) => (TcsetRuns /\ faults < MaxFaults)
            /\ faults' = IF ok THEN faults ELSE faults + 1
            /\ tc_cmds' = st2.cmds
            /\ shaper' = st2.shaper
    /\ settled' = time_sleep(FALSE)
    /\ pc' = "call"
    /\ UNCHANGED <<sweep, idx, test_id_counter, cur_id, params_csv, files, iface, tcconfig,
                   exit_code, last_result, dispatched, net, serverVars, parseVars, aggVars, restVars, diskVars>>

\* run_client_test, lines 145-146: take the next test id and log the row
RunClientTestLog ==
    /\ \/ pc = "loop" /\ sweep = 1 /\ idx <= Len(file_sizes) /\ file_sizes[idx] \in files
       \/ pc = "call"
    /\ LET next == get_next_test_id(test_id_counter)
       IN /\ cur_id' = next.id
          /\ test_id_counter' = next.counter
          /\ params_csv' = log_test_params(params_csv, test_row(sweep, idx, next.id))
    /\ earlier_synced' = params_synced
    /\ params_synced' = close_file(params_synced)
    /\ pc' = "logged"
    /\ UNCHANGED <<sweep, idx, files, iface, tcconfig, shaper, tc_cmds, settled, exit_code,
                   last_result, dispatched, faults, net, serverVars, parseVars, aggVars,
                   restVars, results_synced>>

\* run_client_test, line 149: subprocess.run of the client binary starts
RunClientTestInvoke ==
    /\ pc = "logged"
    /\ dispatched' = Append(dispatched, cur_id)
    /\ net' = [state |-> "sent", id |-> cur_id]
    /\ pc' = "waiting"
    /\ UNCHANGED <<sweep, idx, test_id_counter, cur_id, params_csv, files, iface, tcconfig,
                   shaper, tc_cmds, settled, exit_code, last_result, faults,
                   serverVars, parseVars, aggVars, restVars, diskVars>>

\* run_client_test, lines 150-164, and the sleep(1) of the caller: return code
\* 0 goes on to the next value; a non-zero code, the 60 s timeout or any
\* exception call sys.exit(1), which unwinds to the finally block of main()
\* (SystemExit is no Exception, so line 161 does not catch it). The client
\* binary is taken to return 0 only after the server binary received the file
ClientReturn(result) ==
    /\ pc = "waiting"
    /\ result = "ok" => net.state = "received"
    /\ last_result' = result
    /\ net' = NoTransfer
    /\ IF transfer_fatal(result)
       THEN /\ exit_code' = 1
            /\ pc' = sys_exit(1)
            /\ idx' = idx
       ELSE /\ exit_code' = exit_code
            /\ pc' = "loop"
            /\ idx' = idx + 1
    /\ UNCHANGED <<sweep, test_id_counter, cur_id, params_csv, files, iface, tcconfig,
                   shaper, tc_cmds, settled, dispatched, faults,
                   serverVars, parseVars, aggVars, restVars, diskVars>>

\* the sweep's loop is over: main() calls the next sweep, or leaves the try
\* block after TEST 3
SweepEnd ==
    /\ pc = "loop"
    /\ idx > Len(SweepValues(sweep))
    /\ IF sweep < 3
       THEN /\ sweep' = sweep + 1
            /\ pc' = "begin"
            /\ exit_code' = exit_code
       ELSE /\ sweep' = sweep
            /\ pc' = "cleanup"
            /\ exit_code' = 0
    /\ idx' = 1
    /\ UNCHANGED <<test_id_counter, cur_id, params_csv, files, iface, tcconfig, shaper,
                   tc_cmds, settled, last_result, dispatched, faults, net,
                   serverVars, parseVars, aggVars, restVars, diskVars>>

\* main(), finally block: clear the shaping, then the process ends
Cleanup ==
    /\ pc = "cleanup"
    /\ LET st == clear_network_shaping([cmds |-> tc_cmds, shaper |-> shaper], iface)
       IN /\ tc_cmds' = st.cmds
          /\ shaper' = st.shaper
    /\ settled' = FALSE
    /\ pc' = "exited"
    /\ UNCHANGED <<sweep, idx, test_id_counter, cur_id, params_csv, files, iface, tcconfig,
                   exit_code, last_result, dispatched, faults, net,
                   serverVars, parseVars, aggVars, restVars, diskVars>>

----------------------------------------------------------------------------
(* Server: main() of CP1_server.py *)

record_results_rewriting(log, line) == << line >>

\* record_results: append one line to results.log
record_results(log, line) == Append(log, line)

\* main(), lines 143-149: two hash lines, index = 0
ServerStart ==
    /\ srv_pc = "start"
    /\ results_log' = record_results(record_results(results_log,
                         [kind |-> "hash", index |-> -1, src |-> -1]),
                         [kind |-> "hash", index |-> -1, src |-> -1])
    /\ index' = 0
    /\ srv_pc' = "listen"
    /\ results_synced' = os_fsync(results_synced)
    /\ UNCHANGED <<driverVars, faults, net, parseVars, aggVars, restVars,
                   params_synced, earlier_synced>>

\* one pass of the loop, lines 150-158, when the server binary received the
\* transfer in flight: its "Complete transmission" output is recorded with
\* the server's own index; src is the driver's id of that transfer
ServerComplete ==
    /\ srv_pc = "listen"
    /\ net.state = "sent"
    /\ results_log' = record_results(results_log,
                         [kind |-> "complete", index |-> index, src |-> net.id])
    /\ index' = index + 1
    /\ net' = [net EXCEPT !.state = "received"]
    /\ results_synced' = os_fsync(results_synced)
    /\ UNCHANGED <<driverVars, faults, srv_pc, parseVars, aggVars, restVars,
                   params_synced, earlier_synced>>

\* one pass of the loop when listener() returns without a completed
\* transfer ("Receive Error" or other output): the line is recorded and the
\* index advances all the same
ServerOther ==
    /\ srv_pc = "listen"
    /\ faults < MaxFaults
    /\ faults' = faults + 1
    /\ results_log' = record_results(results_log,
                         [kind |-> "other", index |-> index, src |-> -1])
    /\ index' = index + 1
    /\ results_synced' = os_fsync(results_synced)
    /\ UNCHANGED <<driverVars, net, srv_pc, parseVars, aggVars, restVars,
                   params_synced, earlier_synced>>

----------------------------------------------------------------------------

\* the operating system writes the cached rows of test_parameters.csv to the
\* disk at a time of its own choosing
OsWriteback ==
    /\ ~params_synced
    /\ params_synced' = TRUE
    /\ earlier_synced' = TRUE
    /\ UNCHANGED <<driverVars, faults, net, serverVars, parseVars, aggVars, restVars,
                   results_synced>>

Next ==
    \/ MainSetup
    \/ MainSetupFail
    \/ SuiteBegin
    \/ SuiteSkip
    \/ VarBegin
    \/ VarShape
    \/ RunClientTestLog
    \/ RunClientTestInvoke
    \/ \E result \in Results : ClientReturn(result)
    \/ SweepEnd
    \/ Cleanup
    \/ ServerStart
    \/ ServerComplete
    \/ ServerOther
    \/ OsWriteback

Spec == Init /\ [][Next]_vars

\* the steps of the driver process
DriverNext ==
    \/ MainSetup
    \/ MainSetupFail
    \/ SuiteBegin
    \/ SuiteSkip
    \/ VarBegin
    \/ VarShape
    \/ RunClientTestLog
    \/ RunClientTestInvoke
    \/ \E result \in Results : ClientReturn(result)
    \/ SweepEnd
    \/ Cleanup

\* the driver is a sequential program that keeps running: it takes its next
\* step whenever it has one. A transfer in flight always has one, because
\* subprocess.run(..., timeout=60) returns or raises TimeoutExpired after
\* 60 s at the latest. Nothing is assumed of the server
SpecFair == Spec /\ WF_vars(DriverNext)

----------------------------------------------------------------------------
(* SpecParse: the two parsers applied to a log file *)

TokenSet == {Tok("ts", 0), Tok("id", 7), Tok("ct", 0), Tok("num", 901), Tok("ms", 0),
             Tok("junk", 0)}

\* every line of at most MaxTokens tokens
TokenLines == UNION {[1..n -> TokenSet] : n \in 0..MaxTokens}

\* the lines of a log that holds completion lines and other status text
LogLines == {CompletionLine(id, d) : id \in 0..MaxTestId, d \in Durations} \cup {NoiseLine}

\* the files given to the parsers: one arbitrary line, or up to MaxLines lines
\* of a server log
Contents == {<<l>> : l \in TokenLines} \cup UNION {[1..n -> LogLines] : n \in 1..MaxLines}

InitParse ==
    /\ DriverInit /\ tcconfig = FALSE
    /\ ServerInit
    /\ AggIdle
    /\ RestIdle
    /\ content \in Contents
    /\ parse_pc = {}
    /\ test_data = EmptyData
    /\ warnings = << >>
    /\ csv_rows = << >>

\* LogParser.parse_experimental_log(log_file) on the file
ParseExperimentalLog ==
    /\ "exp" \notin parse_pc
    /\ LET r == parse_experimental_log(content)
       IN /\ test_data' = r.data
          /\ warnings' = r.warn
    /\ parse_pc' = parse_pc \cup {"exp"}
    /\ UNCHANGED <<driverVars, faults, net, serverVars, content, csv_rows, aggVars, restVars, diskVars>>

\* 2csv.py convert_log_to_csv(input_file, output_file) on the file
ConvertLogToCsv ==
    /\ "csv" \notin parse_pc
    /\ csv_rows' = convert_log_to_csv(content)
    /\ parse_pc' = parse_pc \cup {"csv"}
    /\ UNCHANGED <<driverVars, faults, net, serverVars, content, test_data, warnings, aggVars, restVars, diskVars>>

NextParse == ParseExperimentalLog \/ ConvertLogToCsv

SpecParse == InitParse /\ [][NextParse]_vars

----------------------------------------------------------------------------
(* SpecRerun: the two parsers run a second time on the same, unchanged file *)

\* the lines of the logs that are parsed twice: ids of Test 1 and Test 2 and
\* one id outside every range, and a line of other text
RerunLines == {CompletionLine(id, d) : id \in {5, 7, 16}, d \in Durations} \cup {NoiseLine}

RerunContents == UNION {[1..n -> RerunLines] : n \in 1..MaxLines}

InitRerun ==
    /\ DriverInit /\ tcconfig = FALSE
    /\ ServerInit
    /\ AggIdle
    /\ RestIdle
    /\ content \in RerunContents
    /\ parse_pc = {}
    /\ test_data = EmptyData
    /\ warnings = << >>
    /\ csv_rows = << >>

new_test_data_kept(prev) == prev

\* data_praser.py, line 53: each call builds its own test_data, whatever an
\* earlier call (prev) returned and printed
new_test_data(prev) == [data |-> EmptyData, warn |-> << >>]

open_w_appending(old, rows) == old \o rows

\* 2csv.py, lines 36-51: the output file is opened with mode 'w', which
\* empties it, then the header and the rows are written; old is what the
\* file held before (the header line is not kept in csv_rows)
open_w(old, rows) == rows

\* LogParser.parse_experimental_log(log_file) called again on the file
ParseExperimentalLogAgain ==
    /\ "exp" \in parse_pc
    /\ "exp2" \notin parse_pc
    /\ LET r == ClassifyAll(new_test_data([data |-> test_data, warn |-> warnings]),
                            Matches(content))
       IN /\ test_data' = r.data
          /\ warnings' = r.warn
    /\ parse_pc' = parse_pc \cup {"exp2"}
    /\ UNCHANGED <<driverVars, faults, net, serverVars, content, csv_rows, aggVars, restVars, diskVars>>

\* convert_log_to_csv(input_file, output_file) called again with the same
\* output file
ConvertLogToCsvAgain ==
    /\ "csv" \in parse_pc
    /\ "csv2" \notin parse_pc
    /\ csv_rows' = open_w(csv_rows, convert_log_to_csv(content))
    /\ parse_pc' = parse_pc \cup {"csv2"}
    /\ UNCHANGED <<driverVars, faults, net, serverVars, content, test_data, warnings, aggVars, restVars, diskVars>>

NextRerun ==
    \/ ParseExperimentalLog
    \/ ConvertLogToCsv
    \/ ParseExperimentalLogAgain
    \/ ConvertLogToCsvAgain

SpecRerun == InitRerun /\ [][NextRerun]_vars

----------------------------------------------------------------------------
(* SpecTheory: theoretical_time of model.py on one set of arguments.        *)
(* Python computes in binary floating point; here the values are exact      *)
(* fractions [n, d] in lowest terms, which the floats approximate to about  *)
(* 16 digits, far below the 4 decimals that are written out                 *)

RECURSIVE GCD(_, _)
GCD(a, b) == IF b = 0 THEN a ELSE GCD(b, a % b)

\* the fraction n/d, n >= 0 and d > 0, in lowest terms
Rat(n, d) == LET g == GCD(n, d) IN [n |-> n \div g, d |-> d \div g]

RatAdd(x, y) == Rat(x.n * y.d + y.n * x.d, x.d * y.d)

RatMul(x, y) == Rat(x.n * y.n, x.d * y.d)

RatDiv(x, y) == Rat(x.n * y.d, x.d * y.n)

theoretical_time_one_way(file_size, bandwidth, propagation_delay) ==
    RatAdd(RatDiv(file_size, bandwidth), propagation_delay)

\* model.py theoretical_time: seconds, from bytes, bytes per second, seconds
theoretical_time(file_size, bandwidth, propagation_delay) ==
    RatAdd(RatDiv(file_size, bandwidth), RatMul(Rat(2, 1), propagation_delay))

\* the arguments: the driver's file sizes in bytes, 0/1/5/10/20 Mbps in bytes
\* per second, 0 to 100 ms in seconds
TheoryFileSizes == {1024, 5120, 25600, 102400, 1048576, 10485760}

TheoryBandwidths == {0, 131072, 655360, 1310720, 2621440}

TheoryDelays == {Rat(0, 1), Rat(1, 1000), Rat(1, 200), Rat(1, 100), Rat(1, 20), Rat(1, 10)}

InitTheory ==
    /\ DriverInit /\ tcconfig = FALSE
    /\ ServerInit
    /\ ParseIdle
    /\ AggIdle
    /\ CorrIdle
    /\ th_args \in [file_size : TheoryFileSizes, bandwidth : TheoryBandwidths,
                     propagation_delay : TheoryDelays]
    /\ th_time = NoTime
    /\ GenIdle

\* generate_data_*, e.g. line 56: time = theoretical_time(...) * 1000; the
\* division raises ZeroDivisionError for bandwidth 0
TheoreticalTimeMs ==
    /\ th_time.state = "none"
    /\ th_time' =
          IF th_args.bandwidth = 0
          THEN [state |-> "ZeroDivisionError", n |-> 0, d |-> 1]
          ELSE LET time == RatMul(theoretical_time(Rat(th_args.file_size, 1),
                                                   Rat(th_args.bandwidth, 1),
                                                   th_args.propagation_delay),
                                  Rat(1000, 1))
               IN [state |-> "ok", n |-> time.n, d |-> time.d]
    /\ UNCHANGED <<driverVars, faults, net, serverVars, parseVars, aggVars, corrVars, th_args,
                   gen_pc, gen_i, th_results, diskVars>>

NextTheory == TheoreticalTimeMs

SpecTheory == InitTheory /\ [][NextTheory]_vars

----------------------------------------------------------------------------
(* SpecSweep: model.py run as a script. It removes results.csv and writes   *)
(* the three theoretical sweeps into it row by row. The file is kept as its *)
(* header flag, its row count and its last two rows                         *)

\* default arguments of the three generators
default_bandwidth == 1310720

default_file_size == 1048576

default_propagation_delay == Rat(1, 100)

total_num_files == 10240

size_increment == 1024

min_file_size == 1024

total_num_tests_bandwidth == 20

bandwidth_increment == 131072

min_bandwidth == 131072

total_num_tests_delay == 100

delay_increment == Rat(1, 1000)

min_delay == Rat(1, 1000)

sweep_value_doubled(min_value, increment, i) ==
    RatAdd(min_value, RatMul(RatMul(Rat(2, 1), increment), Rat(i, 1)))

\* lines 53, 69, 85: the i-th value of a sweep, min + increment * i
sweep_value(min_value, increment, i) ==
    RatAdd(min_value, RatMul(increment, Rat(i, 1)))

\* f"{time:.4f}": time in ms rounded to 4 decimals, given in units of 0.0001
\* ms. The float that is formatted differs from the exact value in about
\* the 16th digit, so a value exactly half way between two neighbours is
\* printed as either of them
format_4f(time) ==
    LET whole == time.n \div time.d
        r == (time.n % time.d) * 10000
        q == r \div time.d
        twice == 2 * (r % time.d)
        below == whole * 10000 + q
    IN IF twice < time.d THEN {below}
       ELSE IF twice > time.d THEN {below + 1}
       ELSE {below, below + 1}

\* record_results_csv: append one row, after the header when the file is new
record_results_csv(csv, test_type, parameter_value, parameter_unit, time_ms) ==
    [exists |-> TRUE,
     header |-> IF csv.exists THEN csv.header ELSE TRUE,
     rows |-> csv.rows + 1,
     prev |-> csv.last,
     last |-> [test_type |-> test_type, parameter_value |-> parameter_value,
               parameter_unit |-> parameter_unit, time_ms |-> time_ms]]

\* a results.csv left by an earlier run of the script
StaleResultsCsv ==
    [exists |-> TRUE, header |-> TRUE, rows |-> 10360,
     prev |-> NoRow,
     last |-> [test_type |-> "Test_3_PropagationDelay", parameter_value |-> Rat(100, 1),
               parameter_unit |-> "ms", time_ms |-> 10000000]]

InitSweep ==
    /\ DriverInit /\ tcconfig = FALSE
    /\ ServerInit
    /\ ParseIdle
    /\ AggIdle
    /\ CorrIdle
    /\ th_args = << >>
    /\ th_time = NoTime
    /\ gen_pc = "start"
    /\ gen_i = 0
    /\ th_results \in {NoResultsCsv, StaleResultsCsv}

sweepUnchanged == <<driverVars, faults, net, serverVars, parseVars, aggVars, corrVars,
                    th_args, th_time, diskVars>>

\* cleanup_test_file: remove results.csv if it exists
CleanupTestFile ==
    /\ gen_pc = "start"
    /\ th_results' = NoResultsCsv
    /\ gen_pc' = "file_size"
    /\ gen_i' = 0
    /\ UNCHANGED sweepUnchanged

\* one turn of the loops of generate_data_file_size
GenerateDataFileSize ==
    /\ gen_pc = "file_size"
    /\ gen_i < total_num_files
    /\ LET y == sweep_value(Rat(min_file_size, 1), Rat(size_increment, 1), gen_i)
           time == RatMul(theoretical_time(y, Rat(default_bandwidth, 1),
                                           default_propagation_delay),
                          Rat(1000, 1))
       IN \E text \in format_4f(time) :
            th_results' = record_results_csv(th_results, "Test_1_FileSize",
                                             RatDiv(y, Rat(1024, 1)), "KB", text)
    /\ gen_i' = IF gen_i + 1 < total_num_files THEN gen_i + 1 ELSE 0
    /\ gen_pc' = IF gen_i + 1 < total_num_files THEN gen_pc ELSE "bandwidth"
    /\ UNCHANGED sweepUnchanged

\* one turn of the loops of generate_data_bandwidth
GenerateDataBandwidth ==
    /\ gen_pc = "bandwidth"
    /\ gen_i < total_num_tests_bandwidth
    /\ LET bandwidth == sweep_value(Rat(min_bandwidth, 1), Rat(bandwidth_increment, 1), gen_i)
           time == RatMul(theoretical_time(Rat(default_file_size, 1), bandwidth,
                                           default_propagation_delay),
                          Rat(1000, 1))
       IN \E text \in format_4f(time) :
            th_results' = record_results_csv(th_results, "Test_2_Bandwidth",
                                             RatDiv(RatMul(bandwidth, Rat(8, 1)),
                                                    Rat(1048576, 1)),
                                             "Mbps", text)
    /\ gen_i' = IF gen_i + 1 < total_num_tests_bandwidth THEN gen_i + 1 ELSE 0
    /\ gen_pc' = IF gen_i + 1 < total_num_tests_bandwidth THEN gen_pc ELSE "delay"
    /\ UNCHANGED sweepUnchanged

\* one turn of the loops of generate_data_propagation_delay
GenerateDataPropagationDelay ==
    /\ gen_pc = "delay"
    /\ gen_i < total_num_tests_delay
    /\ LET delay == sweep_value(min_delay, delay_increment, gen_i)
           time == RatMul(theoretical_time(Rat(default_file_size, 1),
                                           Rat(default_bandwidth, 1), delay),
                          Rat(1000, 1))
       IN \E text \in format_4f(time) :
            th_results' = record_results_csv(th_results, "Test_3_PropagationDelay",
                                             RatMul(delay, Rat(1000, 1)), "ms", text)
    /\ gen_i' = IF gen_i + 1 < total_num_tests_delay THEN gen_i + 1 ELSE 0
    /\ gen_pc' = IF gen_i + 1 < total_num_tests_delay THEN gen_pc ELSE "done"
    /\ UNCHANGED sweepUnchanged

NextSweep ==
    \/ CleanupTestFile
    \/ GenerateDataFileSize
    \/ GenerateDataBandwidth
    \/ GenerateDataPropagationDelay

SpecSweep == InitSweep /\ [][NextSweep]_vars

----------------------------------------------------------------------------
(* SpecCorr: the theoretical series of one test matched to the test's       *)
(* experimental points, by LogParser.get_test_subset and by load_data of    *)
(* the report. Parameter values are counted in units of 0.0001, so 10.0 is  *)
(* 100000 and 9.98 is 99800                                                 *)

MaxSeries == 3

MaxPoints == 2

\* get_test_subset, line 326: the tolerance 0.01
Tolerance == 100

\* organize_experimental_runs, line 190: np.nan; every duration is positive
NaN == -1

Abs(x) == IF x < 0 THEN 0 - x ELSE x

\* the parameter values of theoretical samples: 5.0, 9.98, 10.0, 10.0004, 10.02
TheoryParams == {50000, 99800, 100000, 100004, 100200}

\* a series of n samples; the time of a sample tells its place in the series
TheorySeries == UNION {[1..n -> TheoryParams] : n \in 0..MaxSeries}

SeriesOf(ps) == [i \in 1..Len(ps) |-> [p |-> ps[i], t |-> 100 * i]]

\* the experimental points: values 5.0, 10.0 and 20.0, each with the
\* durations of one or of two runs (grouped_results, line 115)
PointValues == {50000, 100000, 200000}

RunLists == {<< 901 >>, << 901, 890 >>}

PointRows == [value : PointValues, transmission_times : RunLists]

\* the rows of a test after the merge with the parameter log: every value
\* once, in the order of the test ids
MergedRows ==
    {rows \in UNION {[1..n -> PointRows] : n \in 1..MaxPoints} :
        \A i, j \in 1..Len(rows) : rows[i].value = rows[j].value => i = j}

InitCorr ==
    /\ DriverInit /\ tcconfig = FALSE
    /\ ServerInit
    /\ ParseIdle
    /\ AggIdle
    /\ TheoryIdle
    /\ \E ps \in TheorySeries : theory = SeriesOf(ps)
    /\ merged_data \in MergedRows
    /\ subset = NoSubset
    /\ loaded = NoLoad
    /\ exported = NoExport

\* min(range(len(...)), key=...) and idxmin: the first index from i on whose
\* distance to val is the least; best is the least found before i
RECURSIVE ClosestFrom(_, _, _, _)
ClosestFrom(series, val, i, best) ==
    IF i > Len(series) THEN best
    ELSE IF Abs(series[i].p - val) < Abs(series[best].p - val)
         THEN ClosestFrom(series, val, i + 1, i)
         ELSE ClosestFrom(series, val, i + 1, best)

closest_idx(series, val) == ClosestFrom(series, val, 2, 1)

\* get_test_subset, lines 321-328, the loop over param_values from k on
RECURSIVE get_test_subset(_, _, _)
get_test_subset(series, param_values, k) ==
    IF k > Len(param_values) THEN << >>
    ELSE (IF series # << >>
          THEN LET c == closest_idx(series, param_values[k])
               IN IF Abs(series[c].p - param_values[k]) < Tolerance
                  THEN << series[c] >>
                  ELSE << >>
          ELSE << >>) \o get_test_subset(series, param_values, k + 1)

\* round(x, 3) for a value that is not half-way between two thousandths
Round3(x) == ((x + 5) \div 10) * 10

\* get_theory_value, lines 160-166, for one value: the first sample equal
\* to val after rounding both to 3 decimals, else the nearest sample
theory_value(series, val) ==
    LET closest_match == {i \in 1..Len(series) : Round3(series[i].p) = Round3(val)}
    IN IF closest_match # {}
       THEN series[CHOOSE i \in closest_match : \A j \in closest_match : i <= j].t
       ELSE series[closest_idx(series, val)].t

\* get_theory_value: idxmin of an empty column raises ValueError
get_theory_value(series, param_values) ==
    IF series = << >> /\ param_values # << >>
    THEN [state |-> "ValueError", values |-> << >>]
    ELSE [state |-> "ok",
          values |-> [k \in 1..Len(param_values) |-> theory_value(series, param_values[k])]]

\* sort_values on the parameter column, ascending; the values are distinct
RECURSIVE sort_values(_)
sort_values(rows) ==
    IF rows = << >> THEN << >>
    ELSE LET m == CHOOSE i \in 1..Len(rows) :
                      \A j \in 1..Len(rows) : rows[i].value <= rows[j].value
         IN << rows[m] >> \o
            sort_values([i \in 1..(Len(rows) - 1) |-> IF i < m THEN rows[i] ELSE rows[i + 1]])

\* organize_experimental_runs, lines 175-193: as many runs as the first row
\* has durations; a row with fewer durations gets np.nan in the later runs
organize_experimental_runs(test_rows) ==
    IF Len(test_rows) = 0 THEN << >>
    ELSE LET num_runs == Len(test_rows[1].transmission_times)
         IN [run_idx \in 1..num_runs |->
               [i \in 1..Len(test_rows) |->
                  IF run_idx <= Len(test_rows[i].transmission_times)
                  THEN test_rows[i].transmission_times[run_idx]
                  ELSE NaN]]

\* the parameter column of the rows
ValuesOf(rows) == [i \in 1..Len(rows) |-> rows[i].value]

\* the durations of run r, in the order of the test ids; each carries the
\* parameter value it was measured at, which the program does not keep
RECURSIVE RunTimes(_, _, _)
RunTimes(rows, r, i) ==
    IF i > Len(rows) THEN << >>
    ELSE (IF r <= Len(rows[i].transmission_times)
          THEN << [time |-> rows[i].transmission_times[r], at |-> rows[i].value] >>
          ELSE << >>) \o RunTimes(rows, r, i + 1)

\* parse_all_results, lines 239-248: the 'experimental' list of a test is
\* the durations of the first log, then those of the second, and so on
RECURSIVE ExperimentalFrom(_, _)
ExperimentalFrom(rows, r) ==
    IF \A i \in 1..Len(rows) : Len(rows[i].transmission_times) < r THEN << >>
    ELSE RunTimes(rows, r, 1) \o ExperimentalFrom(rows, r + 1)

experimental_times(rows) == ExperimentalFrom(rows, 1)

\* seq[:n]
Head_n(seq, n) == SubSeq(seq, 1, IF n < Len(seq) THEN n ELSE Len(seq))

\* the '' written when there is no experimental time at a position
NoExperimental == [time |-> 0, at |-> 0]

\* LogParser.get_test_subset(data, test_number, param_values) with the
\* values of the experimental points as param_values
GetTestSubset ==
    /\ subset.state = "none"
    /\ LET sel == get_test_subset(theory, ValuesOf(merged_data), 1)
           experimental == experimental_times(merged_data)
       IN subset' = [state |-> "ok",
                     experimental |-> Head_n(experimental, Len(merged_data)),
                     theoretical |-> [i \in 1..Len(sel) |-> sel[i].t],
                     theoretical_parameters |-> [i \in 1..Len(sel) |-> sel[i].p]]
    /\ UNCHANGED <<driverVars, faults, net, serverVars, parseVars, aggVars, theoryVars,
                   theory, merged_data, loaded, exported, diskVars>>

\* load_data for one test: sort the rows, look up the theory values, put the
\* durations into runs
LoadData ==
    /\ loaded.state = "none"
    /\ LET test_rows == sort_values(merged_data)
           th == get_theory_value(theory, ValuesOf(test_rows))
       IN loaded' = IF th.state = "ok"
                    THEN [state |-> "ok",
                          x |-> ValuesOf(test_rows),
                          theoretical |-> th.values,
                          experimental_runs |-> organize_experimental_runs(test_rows)]
                    ELSE [NoLoad EXCEPT !.state = "ValueError"]
    /\ UNCHANGED <<driverVars, faults, net, serverVars, parseVars, aggVars, theoryVars,
                   theory, merged_data, subset, exported, diskVars>>

\* export_csv for one test, lines 355-362: one row per theoretical sample,
\* with the experimental time at the same position, or '' past the end
ExportCsv ==
    /\ exported.state = "none"
    /\ LET experimental == experimental_times(merged_data)
       IN exported' = [state |-> "ok",
                       rows |-> [i \in 1..Len(theory) |->
                                   [parameter |-> theory[i].p,
                                    theoretical_time_ms |-> theory[i].t,
                                    experimental_time_ms |->
                                        IF i <= Len(experimental) THEN experimental[i]
                                        ELSE NoExperimental]]]
    /\ UNCHANGED <<driverVars, faults, net, serverVars, parseVars, aggVars, theoryVars,
                   theory, merged_data, subset, loaded, diskVars>>

NextCorr == GetTestSubset \/ LoadData \/ ExportCsv

SpecCorr == InitCorr /\ [][NextCorr]_vars

----------------------------------------------------------------------------
(* The lists LogParser declares, and the units they are in *)

\* LogParser.__init__: file_sizes (KB), bandwidths (Mbps), delays (ms)
declared_file_sizes == << 1, 5, 25, 100, 1024, 10240 >>
declared_bandwidths == << 1, 5, 10, 20 >>
declared_delays == << 0, 5, 10, 20, 50, 100 >>

DeclaredValues(t) == CASE t = 1 -> declared_file_sizes
                       [] t = 2 -> declared_bandwidths
                       [] t = 3 -> declared_delays

----------------------------------------------------------------------------
(* SpecAgg: parse_all_results over the expected run logs, then the plotter's *)
(* process_experimental_data                                                *)

\* parse_all_results: experimental_files, the run logs looked for, in order
experimental_files == << "test_results.log", "results2.log", "results3.log",
                         "results4.log", "results5.log" >>

\* process_experimental_data: runs_per_param
runs_per_param == 5

\* the duration run log pr reports for test id 7; the other ids of the log
\* differ from it by 10 ms per id, so that no two points of a log agree
ProfileBase == << 901, 890, 905, 897 >>

Dur(pr, id) == ProfileBase[pr] + 10 * (id - 7)

\* the results.log a fault-free run of the driver leaves on the server: a
\* hash line, then one completion line per transfer, indices 0..17 in order
RunLog(pr) == << NoiseLine >> \o [i \in 1..18 |-> CompletionLine(i - 1, Dur(pr, i - 1))]

MissingFile == [exists |-> FALSE, lines |-> << >>]

RunFileSet == {MissingFile} \cup {[exists |-> TRUE, lines |-> RunLog(pr)] : pr \in 1..NumProfiles}

InitAgg ==
    /\ DriverInit /\ tcconfig = FALSE
    /\ ServerInit
    /\ ParseIdle
    /\ RestIdle
    /\ run_files \in [1..Len(experimental_files) -> RunFileSet]
    /\ agg_pc = "ready"
    /\ all_experimental_data = EmptyData
    /\ averaged = [t \in 1..3 |-> [state |-> "none", rows |-> << >>]]

RECURSIVE MergeFilesReplacing(_, _, _)
MergeFilesReplacing(fs, k, acc) ==
    IF k > Len(fs) THEN acc
    ELSE IF fs[k].exists
         THEN LET d == parse_experimental_log(fs[k].lines).data
              IN MergeFilesReplacing(fs, k + 1, d)
         ELSE MergeFilesReplacing(fs, k + 1, acc)

RECURSIVE MergeFilesUntilMissing(_, _, _)
MergeFilesUntilMissing(fs, k, acc) ==
    IF k > Len(fs) THEN acc
    ELSE IF fs[k].exists
         THEN LET d == parse_experimental_log(fs[k].lines).data
              IN MergeFilesUntilMissing(fs, k + 1, [t \in 1..3 |-> acc[t] \o d[t]])
         ELSE acc

\* parse_all_results, lines 239-248: every existing file is parsed and its
\* lists are appended, test by test, to the aggregate
RECURSIVE MergeFiles(_, _, _)
MergeFiles(fs, k, acc) ==
    IF k > Len(fs) THEN acc
    ELSE IF fs[k].exists
         THEN LET d == parse_experimental_log(fs[k].lines).data
              IN MergeFiles(fs, k + 1, [t \in 1..3 |-> acc[t] \o d[t]])
         ELSE MergeFiles(fs, k + 1, acc)

RECURSIVE SumRange(_, _, _)
SumRange(seq, a, b) == IF a > b THEN 0 ELSE seq[a] + SumRange(seq, a + 1, b)

\* plot_results.py process_experimental_data: the first num_params * 5
\* values are reshaped to num_params rows of 5 consecutive values and each
\* row is averaged; reshape raises ValueError when the sizes differ.
\* A mean is kept as the pair (sum, n)
process_experimental_data(experimental, num_params) ==
    LET want == num_params * runs_per_param
        have == IF Len(experimental) < want THEN Len(experimental) ELSE want
    IN IF have # want
       THEN [state |-> "ValueError", rows |-> << >>]
       ELSE [state |-> "ok",
             rows  |-> [p \in 1..num_params |->
                          [sum |-> SumRange(experimental, (p - 1) * runs_per_param + 1,
                                            p * runs_per_param),
                           n   |-> runs_per_param]]]

\* parse_all_results: the merge, then organize_test_data per test, which hands
\* the merged list on as 'experimental'
ParseAllResults ==
    /\ agg_pc = "ready"
    /\ all_experimental_data' = MergeFiles(run_files, 1, EmptyData)
    /\ agg_pc' = "merged"
    /\ UNCHANGED <<driverVars, faults, net, serverVars, parseVars, run_files, averaged,
                   restVars, diskVars>>

\* process_experimental_data(data, test_num) on the parsed results;
\* num_params is len(test['parameters']['values'])
ProcessExperimentalData(t) ==
    /\ agg_pc = "merged"
    /\ averaged[t].state = "none"
    /\ averaged' = [averaged EXCEPT ![t] =
                       process_experimental_data(all_experimental_data[t],
                                                 Len(DeclaredValues(t)))]
    /\ UNCHANGED <<driverVars, faults, net, serverVars, parseVars, run_files, agg_pc,
                   all_experimental_data, restVars, diskVars>>

NextAgg == ParseAllResults \/ \E t \in 1..3 : ProcessExperimentalData(t)

SpecAgg == InitAgg /\ [][NextAgg]_vars

\* load_data: parse_file_size (KB), parse_bandwidth (Mbps), parse_delay (ms)
parse_file_size(p) == IF p.u = "MB" THEN p.n * 1024 ELSE p.n
parse_bandwidth(p) == p.n
parse_delay(p) == p.n

\* the value of a row's own sweep parameter, in the declared list's unit
RowValue(row) == CASE row.test_name = 1 -> parse_file_size(row.file_size)
                   [] row.test_name = 2 -> parse_bandwidth(row.bandwidth)
                   [] row.test_name = 3 -> parse_delay(row.delay)

\* the values main() hands to sweep s, in the declared list's unit
DriverValues(s) ==
    [i \in 1..Len(SweepValues(s)) |->
        CASE s = 1 -> parse_file_size(file_sizes[i])
          [] s = 2 -> parse_bandwidth(bandwidth_values[i])
          [] s = 3 -> parse_delay(delay_values[i])]

\* the rows of sweep s among the first k rows of the parameter log
RECURSIVE RowsOfSweep(_, _)
RowsOfSweep(s, k) ==
    IF k = 0 THEN << >>
    ELSE IF params_csv[k].test_name = s
         THEN Append(RowsOfSweep(s, k - 1), params_csv[k])
         ELSE RowsOfSweep(s, k - 1)

----------------------------------------------------------------------------
(* Claims about the driver and the server, checked under Spec *)

\* C1: every test id the driver allocates in its default matrix is put by
\* the classifier's range rule into the group of the sweep that dispatched it
C1_ClassifiedIntoOwnSweep ==
    \A i \in 1..Len(params_csv) :
        ClassifyGroup(params_csv[i].test_id) = params_csv[i].test_name

\* C2: get_next_test_id returns 0 first and one more on each later call; the
\* values are strictly increasing, never repeated, and in dispatch order
C2_IdsCountFromZero ==
    /\ \A i \in 1..Len(params_csv) : params_csv[i].test_id = i - 1
    /\ \A i \in 1..Len(dispatched) : dispatched[i] = i - 1
    /\ test_id_counter = Len(params_csv)
    /\ pc \in {"logged", "waiting"} => cur_id = test_id_counter - 1

C2_Witness ==
    /\ Len(dispatched) = 3
    /\ pc = "waiting"
    /\ cur_id = 2

\* C3: the parameter row of a transfer, with its test id, is in the parameter
\* log before the client binary is invoked, also for transfers that then
\* fail or time out; no test id is in two rows
C3_LoggedBeforeInvoke ==
    /\ \A k \in 1..Len(dispatched) :
          \E i \in 1..Len(params_csv) : params_csv[i].test_id = dispatched[k]
    /\ net.state # "none" =>
          \E i \in 1..Len(params_csv) :
              params_csv[i] = test_row(sweep, idx, net.id)
    /\ \A i, j \in 1..Len(params_csv) :
          params_csv[i].test_id = params_csv[j].test_id => i = j

C3_Witness ==
    /\ last_result = "timeout"
    /\ Len(dispatched) = 2
    /\ Len(params_csv) = 2

\* C4: the id the server writes in a completion line is the test_id the
\* driver logged for the transfer that produced the line
C4_ServerIndexIsDriverId ==
    \A i \in 1..Len(results_log) :
        results_log[i].kind = "complete" => results_log[i].index = results_log[i].src

\* C5: a transfer that returns non-zero, times out or raises ends the driver
\* with exit code 1; after it no transfer is dispatched, no test id is
\* allocated and no parameter row is written
Failures == {"nonzero", "timeout", "raise"}

C5_FirstFailureIsFatal ==
    /\ [](last_result \in Failures => (exit_code = 1 /\ pc \in {"cleanup", "exited"}))
    /\ [][exit_code = 1 => /\ test_id_counter' = test_id_counter
                           /\ params_csv' = params_csv
                           /\ dispatched' = dispatched
                           /\ exit_code' = 1]_vars

C5_Witness ==
    /\ last_result = "nonzero"
    /\ pc = "exited"
    /\ exit_code = 1
    /\ Len(dispatched) = 7

\* C9: per group the declared list and the dispatched list are the same
\* (length, values, order), and the n-th transfer of a group's sweep is made
\* at the n-th declared value
C9_PositionalMapping ==
    /\ \A t \in 1..3 : DriverValues(t) = DeclaredValues(t)
    /\ \A t \in 1..3 :
          LET rows == RowsOfSweep(t, Len(params_csv))
          IN \A n \in 1..Len(rows) :
                /\ n <= Len(DeclaredValues(t))
                /\ RowValue(rows[n]) = DeclaredValues(t)[n]

\* the second conjunct of C9 on its own: the run reaches a transfer whose
\* position in its sweep is not the position of its value in the declared list
C9_NthTransferAtNthValue ==
    \A t \in 1..3 :
        LET rows == RowsOfSweep(t, Len(params_csv))
        IN \A n \in 1..Len(rows) :
              /\ n <= Len(DeclaredValues(t))
              /\ RowValue(rows[n]) = DeclaredValues(t)[n]

\* C1 and C9 in the runs where nothing in the environment fails: the
\* mismatch is in the lists themselves
C1_InFaultFreeRuns == faults = 0 => C1_ClassifiedIntoOwnSweep

C9_InFaultFreeRuns == faults = 0 => C9_NthTransferAtNthValue

\* the number of rules the first k shaping commands leave on the interface
\* when tcset adds a rule to those present and tcdel --all removes them
RECURSIVE RulesAfter(_)
RulesAfter(k) ==
    IF k = 0 THEN 0
    ELSE IF tc_cmds[k].cmd = "tcdel" THEN 0
    ELSE RulesAfter(k - 1) + 1

\* C20: every tcset of a run comes directly after a tcdel on the same
\* interface, with no other tcset in between, so that at no point more than
\* one delay+bandwidth rule is set
C20_ShapingNeverAdditive ==
    /\ \A i \in 1..Len(tc_cmds) :
          tc_cmds[i].cmd = "tcset" =>
              /\ i > 1
              /\ tc_cmds[i - 1].cmd = "tcdel"
              /\ tc_cmds[i - 1].iface = tc_cmds[i].iface
    /\ \A k \in 0..Len(tc_cmds) : RulesAfter(k) <= 1

\* the second sweep has applied the shaping of its second value
C20_Witness ==
    /\ sweep = 2
    /\ idx = 2
    /\ pc = "call"
    /\ shaper.on
    /\ Len(tc_cmds) >= 8
    /\ tc_cmds[Len(tc_cmds)].cmd = "tcset"

----------------------------------------------------------------------------
(* Claims about the classifier, checked under SpecParse *)

\* the shape "[<timestamp>] [<test_id>] Complete transmission in <duration> ms"
\* with nothing else on the line
IsCompletionShape(l) ==
    /\ Len(l) = 5
    /\ l[1].k = "ts"
    /\ l[2].k = "id"
    /\ l[3].k = "ct"
    /\ l[4].k = "num"
    /\ l[5].k = "ms"

\* C6: a line is recognized as a completion record if and only if it has the
\* completion shape, by parse_log_line and by parse_experimental_log alike;
\* any other line yields no record
C6_RecognizedIffCompletionShape ==
    (parse_pc = {"exp", "csv"} /\ Len(content) = 1) =>
        /\ csv_rows # << >> <=> IsCompletionShape(content[1])
        /\ (\E t \in 1..3 : test_data[t] # << >>) \/ warnings # << >>
              <=> IsCompletionShape(content[1])

\* the closed ranges of the three groups
GroupRange(t) == CASE t = 1 -> 0..5
                   [] t = 2 -> 6..9
                   [] t = 3 -> 10..15

\* the durations of the completion lines whose id is in S, in file order
RECURSIVE DurationsIn(_, _)
DurationsIn(lines, S) ==
    IF lines = << >> THEN << >>
    ELSE (IF Head(lines)[2].n \in S THEN << Head(lines)[4].n >> ELSE << >>)
         \o DurationsIn(Tail(lines), S)

\* C7: every id in 0..15 of a completion line is put in exactly one group,
\* 0-5 Test 1, 6-9 Test 2, 10-15 Test 3, with its duration unchanged; the
\* line with id 7 and duration 901 goes to Test 2 with duration 901
C7_RangeClassification ==
    ("exp" \in parse_pc /\ \A i \in 1..Len(content) : IsCompletionShape(content[i])) =>
        /\ \A t \in 1..3 : test_data[t] = DurationsIn(content, GroupRange(t))
        /\ \A i \in 1..Len(warnings) : warnings[i] \notin 0..15

C7_Witness ==
    /\ "exp" \in parse_pc
    /\ content = << CompletionLine(7, 901) >>
    /\ test_data = [t \in 1..3 |-> IF t = 2 THEN << 901 >> ELSE << >>]
    /\ warnings = << >>

\* the ids among the matches that lie outside all three ranges, in order
RECURSIVE UnknownIds(_)
UnknownIds(ms) ==
    IF ms = << >> THEN << >>
    ELSE (IF Head(ms).index \in 0..15 THEN << >> ELSE << Head(ms).index >>)
         \o UnknownIds(Tail(ms))

\* C8: each recognized line either adds its duration to exactly one group or,
\* when its id is outside all ranges, gets a diagnostic naming the id and is
\* added to no group; none is dropped silently or added after a diagnostic
C8_ClassifiedOrDiagnosed ==
    "exp" \in parse_pc =>
        LET ms == Matches(content)
        IN /\ warnings = UnknownIds(ms)
           /\ Len(test_data[1]) + Len(test_data[2]) + Len(test_data[3])
                 = Len(ms) - Len(UnknownIds(ms))

C8_Witness ==
    /\ "exp" \in parse_pc
    /\ Len(content) = 2
    /\ warnings = << 16 >>
    /\ test_data[3] = << 901 >>

----------------------------------------------------------------------------
(* Claims about the aggregation, checked under SpecAgg *)

\* the run logs that exist
ExistingRuns == {f \in 1..Len(run_files) : run_files[f].exists}

\* the sum, over the existing run logs, of the duration each holds for the
\* p-th point of test t
RECURSIVE PointSum(_, _, _)
PointSum(t, p, f) ==
    IF f > Len(run_files) THEN 0
    ELSE (IF run_files[f].exists
          THEN parse_experimental_log(run_files[f].lines).data[t][p]
          ELSE 0) + PointSum(t, p, f + 1)

\* C10: with K >= 1 run logs holding a duration for a point, the value
\* reported for the point is the mean of exactly those K durations
\* (sum / n = PointSum / K, cross-multiplied)
C10_MeanOfThePointsRuns ==
    \A t \in 1..3 :
        (averaged[t].state # "none" /\ Cardinality(ExistingRuns) >= 1) =>
            /\ averaged[t].state = "ok"
            /\ Len(averaged[t].rows) = Len(DeclaredValues(t))
            /\ \A p \in 1..Len(DeclaredValues(t)) :
                  averaged[t].rows[p].sum * Cardinality(ExistingRuns)
                      = PointSum(t, p, 1) * averaged[t].rows[p].n

\* C10 when all five run logs exist, so that the reshape succeeds
C10_WithAllFiveRuns ==
    \A t \in 1..3 :
        (averaged[t].state # "none" /\ Cardinality(ExistingRuns) = Len(experimental_files)) =>
            /\ averaged[t].state = "ok"
            /\ \A p \in 1..Len(DeclaredValues(t)) :
                  averaged[t].rows[p].sum * Cardinality(ExistingRuns)
                      = PointSum(t, p, 1) * averaged[t].rows[p].n

\* the times of the matches whose index is in S, in order
RECURSIVE TimesIn(_, _)
TimesIn(ms, S) ==
    IF ms = << >> THEN << >>
    ELSE (IF Head(ms).index \in S THEN << Head(ms).time >> ELSE << >>)
         \o TimesIn(Tail(ms), S)

\* the in-range durations of test t in the existing run logs f, f+1, ...,
\* file after file
RECURSIVE RunsInOrder(_, _)
RunsInOrder(t, f) ==
    IF f > Len(run_files) THEN << >>
    ELSE (IF run_files[f].exists
          THEN TimesIn(Matches(run_files[f].lines), GroupRange(t))
          ELSE << >>) \o RunsInOrder(t, f + 1)

ExistingBefore(f) == Cardinality({g \in ExistingRuns : g < f})

\* C12: a run log that does not exist adds no record and does not stop the
\* aggregation: whichever files are missing, the result holds the records
\* of each existing log, and nothing else
C12_MissingFileAddsNothing ==
    agg_pc = "merged" =>
        \A t \in 1..3 :
            LET n == Cardinality(GroupRange(t))
            IN /\ Len(all_experimental_data[t]) = n * Cardinality(ExistingRuns)
               /\ \A f \in ExistingRuns :
                     SubSeq(all_experimental_data[t], n * ExistingBefore(f) + 1,
                            n * ExistingBefore(f) + n)
                         = parse_experimental_log(run_files[f].lines).data[t]

\* the first file is missing and a later one exists
C12_Witness ==
    /\ agg_pc = "merged"
    /\ ~run_files[1].exists
    /\ ~run_files[3].exists
    /\ run_files[4].exists
    /\ all_experimental_data[1] # << >>

\* no expected file exists: the aggregation still ends, with empty lists
C12_AllMissing ==
    /\ agg_pc = "merged"
    /\ ExistingRuns = {}
    /\ all_experimental_data = EmptyData

\* C13: with only some of the expected run logs available, every test point
\* gets the mean of its durations over the available runs, whatever their
\* number
C13_MeansOverAvailableRuns ==
    \A t \in 1..3 :
        LET K == Cardinality(ExistingRuns)
        IN (averaged[t].state # "none" /\ K >= 1 /\ K < Len(experimental_files)) =>
              /\ averaged[t].state = "ok"
              /\ \A p \in 1..Len(averaged[t].rows) :
                    averaged[t].rows[p].sum * K = PointSum(t, p, 1) * averaged[t].rows[p].n

----------------------------------------------------------------------------
(* Claims about running the classifier again, checked under SpecRerun *)

\* C18: a second run of parse_experimental_log, or of convert_log_to_csv
\* with the same output file, on the unchanged log gives the records of the
\* first run, in the same order, none twice, and the same diagnostics
C18_SecondRunSameRecords ==
    /\ [][/\ content' = content
          /\ "exp" \in parse_pc => (test_data' = test_data /\ warnings' = warnings)
          /\ "csv" \in parse_pc => csv_rows' = csv_rows]_vars
    /\ []("exp2" \in parse_pc => \A t \in 1..3 :
              test_data[t] = TimesIn(Matches(content), GroupRange(t)))
    /\ []("csv2" \in parse_pc => Len(csv_rows) <= Len(content))

C18_Witness ==
    /\ parse_pc = {"exp", "csv", "exp2", "csv2"}
    /\ content = << CompletionLine(7, 901), CompletionLine(16, 890) >>
    /\ test_data[2] = << 901 >>
    /\ warnings = << 16 >>
    /\ Len(csv_rows) = 2

----------------------------------------------------------------------------
(* Claims about the theoretical model, checked under SpecTheory *)

\* x - y for x >= y
RatSub(x, y) == Rat(x.n * y.d - y.n * x.d, x.d * y.d)

\* C19: for bandwidth > 0 the time in ms is (file_size / bandwidth +
\* 2 * delay) * 1000, a function of the three arguments alone; stated the
\* other way round: (time / 1000 - 2 * delay) * bandwidth is the file size.
\* For 1048576 bytes, 1310720 bytes/s and 0.01 s the time is 820 ms
C19_TimeMsFormula ==
    (th_time.state # "none" /\ th_args.bandwidth > 0) =>
        LET T == [n |-> th_time.n, d |-> th_time.d]
            twice == RatAdd(th_args.propagation_delay, th_args.propagation_delay)
        IN /\ th_time.state = "ok"
           /\ RatMul(RatSub(RatDiv(T, Rat(1000, 1)), twice), Rat(th_args.bandwidth, 1))
                 = [n |-> th_args.file_size, d |-> 1]
           /\ (/\ th_args.file_size = 1048576
               /\ th_args.bandwidth = 1310720
               /\ th_args.propagation_delay = [n |-> 1, d |-> 100])
                 => (th_time.n = 820 /\ th_time.d = 1)

C19_Witness ==
    /\ th_args = [file_size |-> 1048576, bandwidth |-> 1310720,
                  propagation_delay |-> [n |-> 1, d |-> 100]]
    /\ th_time = [state |-> "ok", n |-> 820, d |-> 1]

----------------------------------------------------------------------------
(* Claims about the correlator and the report's data, checked under SpecCorr *)

\* C14: a point with a duration in some runs only is reported as such, with
\* the number of runs that have it, and no run gets a placeholder for it:
\* the runs of the output hold no placeholder, and for every point as many
\* durations as it was measured
C14_NoPlaceholderForMissingRun ==
    loaded.state = "ok" =>
        LET rows == sort_values(merged_data)
            runs == loaded.experimental_runs
        IN \A i \in 1..Len(rows) :
              /\ \A r \in 1..Len(runs) : runs[r][i] # NaN
              /\ Cardinality({r \in 1..Len(runs) : runs[r][i] # NaN})
                    = Len(rows[i].transmission_times)

\* the second half of C14 alone: a point's later durations are left out
\* when the first row of the test has fewer
C14_EveryDurationInARun ==
    loaded.state = "ok" =>
        LET rows == sort_values(merged_data)
            runs == loaded.experimental_runs
        IN \A i \in 1..Len(rows) :
              Cardinality({r \in 1..Len(runs) : runs[r][i] # NaN})
                  = Len(rows[i].transmission_times)

\* C15: with a non-empty theoretical series every requested parameter value
\* gets a theoretical value, however far the nearest sample is
C15_OneTheoryValuePerPoint ==
    theory # << >> =>
        /\ subset.state = "ok" => Len(subset.theoretical) = Len(merged_data)
        /\ loaded.state # "none" =>
              (loaded.state = "ok" /\ Len(loaded.theoretical) = Len(merged_data))

\* C15 for get_theory_value of load_data alone
C15_InLoadData ==
    (theory # << >> /\ loaded.state # "none") =>
        (loaded.state = "ok" /\ Len(loaded.theoretical) = Len(merged_data))

\* the first sample of the series among those nearest to v
FirstNearest(v) ==
    CHOOSE i \in 1..Len(theory) :
        \A j \in 1..Len(theory) :
            /\ Abs(theory[i].p - v) <= Abs(theory[j].p - v)
            /\ j < i => Abs(theory[j].p - v) > Abs(theory[i].p - v)

\* C16: the sample selected for a value v is the first of the samples that
\* minimize |p - v|, and the time returned is the time of that sample
C16_SelectsNearestSample ==
    /\ loaded.state = "ok" =>
          \A k \in 1..Len(loaded.x) :
              loaded.theoretical[k] = theory[FirstNearest(loaded.x[k])].t
    /\ subset.state = "ok" =>
          \A i \in 1..Len(subset.theoretical) :
              \E k \in 1..Len(merged_data) :
                  LET s == theory[FirstNearest(merged_data[k].value)]
                  IN /\ subset.theoretical[i] = s.t
                     /\ subset.theoretical_parameters[i] = s.p

\* C16 for get_test_subset alone
C16_InGetTestSubset ==
    subset.state = "ok" =>
        \A i \in 1..Len(subset.theoretical) :
            \E k \in 1..Len(merged_data) :
                LET s == theory[FirstNearest(merged_data[k].value)]
                IN /\ subset.theoretical[i] = s.t
                   /\ subset.theoretical_parameters[i] = s.p

\* C16 for load_data when no two samples of the series agree to 3 decimals
C16_OnSeriesDistinctTo3Decimals ==
    (/\ loaded.state = "ok"
     /\ \A i, j \in 1..Len(theory) :
            Round3(theory[i].p) = Round3(theory[j].p) => i = j) =>
        \A k \in 1..Len(loaded.x) :
            loaded.theoretical[k] = theory[FirstNearest(loaded.x[k])].t

Ascending(seq) == \A i, j \in 1..Len(seq) : i < j => seq[i] <= seq[j]

\* C17: the correlated records of a test are in ascending order of the
\* parameter value, whatever the order of the experimental points
C17_AscendingParameterOrder ==
    /\ loaded.state = "ok" => Ascending(loaded.x)
    /\ subset.state = "ok" => Ascending(subset.theoretical_parameters)

\* C17 for load_data alone
C17_InLoadData == loaded.state = "ok" => Ascending(loaded.x)

----------------------------------------------------------------------------
(* Further claims about the driver and the server, checked under Spec *)

\* C21: no transfer is started after a shaping change without a sleep in
\* between: whenever run_client_test has been entered or a transfer is in
\* flight, a sleep has followed the last call that changed the shaping
C21_SettleDelayBeforeTransfer ==
    /\ pc \in {"logged", "waiting"} => settled
    /\ net.state # "none" => settled

\* a transfer of the bandwidth sweep in flight under a rule just applied
C21_Witness ==
    /\ sweep = 2
    /\ pc = "waiting"
    /\ net.state = "sent"
    /\ shaper.on
    /\ tc_cmds[Len(tc_cmds)].cmd = "tcset"
    /\ settled

\* C22: with no interface detected the run goes on and no shaping command,
\* neither tcset nor tcdel, is issued for the empty interface name
C22_NoCommandForEmptyInterface ==
    \A i \in 1..Len(tc_cmds) : tc_cmds[i].iface # ""

\* C22 for the apply alone: no tcset is issued for the empty interface name
C22_NoApplyForEmptyInterface ==
    \A i \in 1..Len(tc_cmds) : tc_cmds[i].cmd = "tcset" => tc_cmds[i].iface # ""

\* a run without an interface that went through all sweeps
C22_RunGoesOn ==
    /\ pc = "exited"
    /\ iface = ""
    /\ exit_code = 0
    /\ Len(dispatched) = 18

----------------------------------------------------------------------------
(* Claims about the end of a run, checked under SpecFair *)

\* C23: every run ends; no transfer is waited for without bound; a run that
\* dispatched a transfer ends either with all 18 transfers of the default
\* matrix completed or with exit code 1 at its first failed transfer
C23_EndsCompletedOrAborted ==
    /\ <>(pc = "exited")
    /\ (pc = "waiting") ~> (pc # "waiting")
    /\ []((pc = "exited" /\ dispatched # << >>) =>
            \/ exit_code = 0 /\ last_result = "ok" /\ Len(dispatched) = 18
            \/ exit_code = 1 /\ last_result \in Failures)

\* C23 without the number of transfers: every run ends and no transfer is
\* waited for without bound
C23_EveryRunEnds ==
    /\ <>(pc = "exited")
    /\ (pc = "waiting") ~> (pc # "waiting")

\* the final states of the runs that dispatched a transfer: completed, with
\* at most one transfer fewer than 18 per failure of the environment, or
\* aborted at a failed transfer
C23_FinalStates ==
    (pc = "exited" /\ dispatched # << >>) =>
        \/ exit_code = 0 /\ last_result = "ok" /\ Len(dispatched) + faults >= 18
        \/ exit_code = 1 /\ last_result \in Failures

----------------------------------------------------------------------------
(* Claims about the two log files, checked under Spec *)

\* C24: every parameter row and every completion line is flushed and
\* synced to durable storage before the next transfer is dispatched or
\* received: while a transfer is in flight the records of the earlier test
\* points are on the disk
C24_RecordsDurableBeforeNextTransfer ==
    net.state # "none" => (earlier_synced /\ results_synced)

\* C24 for the server's log alone
C24_CompletionLinesDurable == results_synced

IsPrefix(a, b) == Len(a) <= Len(b) /\ SubSeq(b, 1, Len(a)) = a

\* C25: once a log holds a record of the run, every step of the driver and
\* of the server leaves its records where they are and at most adds records
\* at the end
C25_LogsAppendOnly ==
    [][/\ params_csv # << >> => IsPrefix(params_csv, params_csv')
       /\ results_log # << >> => IsPrefix(results_log, results_log')]_vars

\* both logs hold the records of several test points
C25_Witness ==
    /\ Len(params_csv) = 3
    /\ Len(results_log) = 4
    /\ results_log[4].kind = "complete"
    /\ pc = "waiting"

\* C26: a run that entered the sweeps ends, after completion and after an
\* abort alike, with a clear on the test interface as its last shaping
\* command, and with no rule left on the interface
C26_ClearedOnEveryExit ==
    /\ (pc = "exited" /\ dispatched # << >> /\ tcconfig) => tc_cmds # << >>
    /\ (pc = "exited" /\ tc_cmds # << >>) =>
          /\ tc_cmds[Len(tc_cmds)].cmd = "tcdel"
          /\ tc_cmds[Len(tc_cmds)].iface = iface
          /\ ~shaper.on

\* a run aborted by a timeout in the bandwidth sweep, cleared after the
\* rule of that transfer
C26_Witness ==
    /\ pc = "exited"
    /\ exit_code = 1
    /\ last_result = "timeout"
    /\ sweep = 2
    /\ iface = "eth0"
    /\ Len(tc_cmds) >= 6
    /\ tc_cmds[Len(tc_cmds) - 1].cmd = "tcset"
    /\ tc_cmds[Len(tc_cmds)].cmd = "tcdel"

\* the parameter row logged for the transfer in flight
RowInFlight == params_csv[CHOOSE i \in 1..Len(params_csv) : params_csv[i].test_id = net.id]

\* C28: every transfer runs while the rule in effect on the interface is
\* the bandwidth and the delay of its parameter row, also when the shaping
\* tool is missing or a tcset fails
C28_TransferUnderLoggedShaping ==
    net.state # "none" =>
        /\ shaper.on
        /\ shaper.delay = RowInFlight.delay
        /\ shaper.rate = RowInFlight.bandwidth

\* C28 in the runs with an interface, with tcconfig and with no failure of
\* the environment
C28_WhenShapingApplies ==
    (net.state # "none" /\ iface # "" /\ tcconfig /\ faults = 0) =>
        /\ shaper.on
        /\ shaper.delay = RowInFlight.delay
        /\ shaper.rate = RowInFlight.bandwidth

\* C28 with tcconfig and an interface, when a tcset may fail
C28_WithToolAndInterface ==
    (net.state # "none" /\ iface # "" /\ tcconfig) =>
        /\ shaper.on
        /\ shaper.delay = RowInFlight.delay
        /\ shaper.rate = RowInFlight.bandwidth

\* sweep s has gone through its whole value list without an abort
SweepDone(s) == sweep > s \/ (sweep = s /\ exit_code = 0)

\* C29: a sweep over n declared values that did not abort has taken exactly
\* n test ids, and its k-th value holds the k-th of them, also when a test
\* file could not be created
C29_OneIdPerDeclaredValue ==
    \A s \in 1..3 :
        SweepDone(s) =>
            LET rows == RowsOfSweep(s, Len(params_csv))
            IN /\ Len(rows) = Len(SweepValues(s))
               /\ \A k \in 1..Len(rows) :
                     /\ rows[k].test_id = rows[1].test_id + k - 1
                     /\ k <= Len(SweepValues(s)) => RowValue(rows[k]) = DriverValues(s)[k]

\* C29 for TEST 2 and TEST 3, which do not look whether the file exists
C29_InVariableSweeps ==
    \A s \in 2..3 :
        SweepDone(s) =>
            LET rows == RowsOfSweep(s, Len(params_csv))
            IN /\ Len(rows) = Len(SweepValues(s))
               /\ \A k \in 1..Len(rows) :
                     /\ rows[k].test_id = rows[1].test_id + k - 1
                     /\ RowValue(rows[k]) = DriverValues(s)[k]

\* the time in units of 0.0001 ms that belongs to parameter value k of the
\* sweep labelled test_type, the other two parameters at 10 Mbps (1310720
\* bytes per second), 10 ms and 1 MB (1048576 bytes)
BaselineTimes(test_type, k) ==
    LET file_size == IF test_type = "Test_1_FileSize" THEN Rat(1024 * k, 1)
                     ELSE Rat(1048576, 1)
        bandwidth == IF test_type = "Test_2_Bandwidth" THEN Rat(131072 * k, 1)
                     ELSE Rat(1310720, 1)
        delay == IF test_type = "Test_3_PropagationDelay" THEN Rat(k, 1000)
                 ELSE Rat(1, 100)
    IN format_4f(RatMul(RatAdd(RatDiv(file_size, bandwidth), RatMul(Rat(2, 1), delay)),
                        Rat(1000, 1)))

SweepUnit(test_type) ==
    IF test_type = "Test_1_FileSize" THEN "KB"
    ELSE IF test_type = "Test_2_Bandwidth" THEN "Mbps" ELSE "ms"

SweepLength(test_type) ==
    IF test_type = "Test_1_FileSize" THEN 10240
    ELSE IF test_type = "Test_2_Bandwidth" THEN 20 ELSE 100

\* the label of the sweep the script is in, or has just finished
SweepLabelAt(position, i) ==
    IF position = "file_size" THEN "Test_1_FileSize"
    ELSE IF position = "bandwidth"
         THEN (IF i = 0 THEN "Test_1_FileSize" ELSE "Test_2_Bandwidth")
    ELSE IF position = "delay"
         THEN (IF i = 0 THEN "Test_2_Bandwidth" ELSE "Test_3_PropagationDelay")
    ELSE "Test_3_PropagationDelay"

\* C27: every row the script writes carries the label and the unit of the
\* sweep that wrote it, a whole parameter value that is 1 for the first row
\* of the sweep, the previous value plus 1 after that and ends at 10240 KB,
\* 20 Mbps or 100 ms, and the time of that value with the other two
\* parameters at 10 Mbps, 10 ms and 1 MB
C27_SweepRows ==
    (gen_pc \in {"file_size", "bandwidth", "delay", "done"} /\ th_results.rows > 0) =>
        LET row == th_results.last
            before == th_results.prev
            k == row.parameter_value.n
            ended == gen_pc = "done" \/ gen_i = 0
        IN /\ th_results.header
           /\ row.test_type = SweepLabelAt(gen_pc, gen_i)
           /\ row.parameter_unit = SweepUnit(row.test_type)
           /\ row.parameter_value.d = 1
           /\ k = (IF ended THEN SweepLength(row.test_type) ELSE gen_i)
           /\ row.time_ms \in BaselineTimes(row.test_type, k)
           /\ IF before.test_type = row.test_type
              THEN /\ before.parameter_value.d = 1
                   /\ k = before.parameter_value.n + 1
              ELSE k = 1

\* the script has written the last row of the delay sweep
C27_Witness ==
    /\ gen_pc = "done"
    /\ th_results.rows = 10360
    /\ th_results.last.test_type = "Test_3_PropagationDelay"
    /\ th_results.last.parameter_value = Rat(100, 1)
    /\ th_results.last.time_ms = 10000000
    /\ th_results.prev.parameter_value = Rat(99, 1)

\* C30: in the exported table and in the subset, an experimental time at a
\* position was measured at the parameter value at that position (to
\* within the tolerance of the match)
C30_TimesPairedWithOwnParameter ==
    /\ \A i \in 1..Len(exported.rows) :
          LET row == exported.rows[i]
          IN row.experimental_time_ms # NoExperimental =>
                 Abs(row.experimental_time_ms.at - row.parameter) < Tolerance
    /\ \A i \in 1..Len(subset.theoretical_parameters) :
          i <= Len(subset.experimental) =>
              Abs(subset.experimental[i].at - subset.theoretical_parameters[i]) < Tolerance

\* C30 for the subset when every requested value found a theoretical sample
C30_SubsetWhenEveryValueMatches ==
    (subset.state = "ok" /\ Len(subset.theoretical_parameters) = Len(merged_data)) =>
        \A i \in 1..Len(subset.theoretical_parameters) :
            /\ i <= Len(subset.experimental)
            /\ Abs(subset.experimental[i].at - subset.theoretical_parameters[i]) < Tolerance

\* C30 for the exported table alone
C30_ExportedRows ==
    \A i \in 1..Len(exported.rows) :
        LET row == exported.rows[i]
        IN row.experimental_time_ms # NoExperimental =>
               Abs(row.experimental_time_ms.at - row.parameter) < Tolerance

====
